---- MODULE Spec2Model ----
(***************************************************************************)
(* Model of the Fabric mod installer (src/index.ts).  File names, slugs    *)
(* and prompt answers are sequences of one-character strings so that       *)
(* toLowerCase, replace, includes, endsWith and trim are computed.         *)
(* Directories are functions from file name to a content tag.              *)
(***************************************************************************)
EXTENDS Integers, Sequences, FiniteSets, TLC

(* A nullable value is a sequence of length 0 (null / undefined / absent)  *)
(* or of length 1 (the value).                                             *)
None == << >>
Some(v) == << v >>

(* ---------------- string primitives used by index.ts ------------------- *)

UpperChars == <<"A","B","C","D","E","F","G","H","I","J","K","L","M",
                "N","O","P","Q","R","S","T","U","V","W","X","Y","Z">>

LowerChars == <<"a","b","c","d","e","f","g","h","i","j","k","l","m",
                "n","o","p","q","r","s","t","u","v","w","x","y","z">>

ToLowerChar(c) ==
  IF \E i \in 1..Len(UpperChars) : UpperChars[i] = c
    THEN LowerChars[CHOOSE i \in 1..Len(UpperChars) : UpperChars[i] = c]
    ELSE c

toLowerCase(s) == [i \in 1..Len(s) |-> ToLowerChar(s[i])]

replaceHyphens(s) == [i \in 1..Len(s) |-> IF s[i] = "-" THEN "_" ELSE s[i]]

includes(s, t) ==
  \E i \in 0..(Len(s) - Len(t)) : SubSeq(s, i + 1, i + Len(t)) = t

endsWith(s, t) ==
  /\ Len(s) >= Len(t)
  /\ SubSeq(s, Len(s) - Len(t) + 1, Len(s)) = t

IsSpace(c) == c = " "

RECURSIVE trimStart(_)
trimStart(s) ==
  IF s # << >> /\ IsSpace(Head(s)) THEN trimStart(Tail(s)) ELSE s

RECURSIVE trimEnd(_)
trimEnd(s) ==
  IF s # << >> /\ IsSpace(s[Len(s)])
    THEN trimEnd(SubSeq(s, 1, Len(s) - 1))
    ELSE s

trim(s) == trimEnd(trimStart(s))

(* the segments of a path, separated by "/" *)
RECURSIVE Split(_, _)
Split(s, seg) ==
  IF s = << >> THEN << seg >>
  ELSE IF Head(s) = "/" THEN << seg >> \o Split(Tail(s), << >>)
  ELSE Split(Tail(s), Append(seg, Head(s)))

(* path normalisation: "" and "." are dropped, ".." leaves the directory *)
RECURSIVE Resolve(_, _)
Resolve(path, segs) ==
  IF segs = << >> THEN path
  ELSE LET seg == Head(segs) IN
    IF seg = << >> \/ seg = <<".">> THEN Resolve(path, Tail(segs))
    ELSE IF seg = <<".", ".">>
      THEN Resolve(IF path = << >> THEN path ELSE SubSeq(path, 1, Len(path) - 1),
                   Tail(segs))
      ELSE Resolve(Append(path, seg), Tail(segs))

(* join(dir, name) of node:path; a path is the sequence of its segments *)
join(dir, name) == Resolve(dir, Split(name, << >>))

(* JavaScript truthiness of a prompt result: null and "" are falsy *)
Falsy(p) == p = None \/ p = Some(<< >>)

(* ---------------- configuration (index.ts 61-80) ----------------------- *)

D_minecraft == <<".","m","i","n","e","c","r","a","f","t">>
D_mods == <<"m","o","d","s">>
D_shaderpacks == <<"s","h","a","d","e","r","p","a","c","k","s">>

P_Library_minecraft ==
  <<"L","i","b","r","a","r","y","/">>
  \o <<"A","p","p","l","i","c","a","t","i","o","n"," ","S","u","p","p","o","r","t","/">>
  \o <<"m","i","n","e","c","r","a","f","t">>

(* a path given as one string, e.g. the value of APPDATA or homedir() *)
Path(s) == Resolve(<< >>, Split(s, << >>))

(* getMinecraftDir (index.ts 43-58): None when it throws.  env.home is    *)
(* what homedir() returns, env.APPDATA is process.env.APPDATA             *)
getMinecraftDir_Unchecked(platform, env) ==
  IF platform = "darwin" THEN Some(join(Path(env.home), P_Library_minecraft))
  ELSE IF platform = "win32" /\ env.APPDATA # None
    THEN Some(join(Path(env.APPDATA[1]), D_minecraft))
    ELSE Some(join(Path(env.home), D_minecraft))

getMinecraftDir(platform, env) ==
  IF platform = "darwin" THEN Some(join(Path(env.home), P_Library_minecraft))
  ELSE IF platform = "win32"
    THEN LET appData == env.APPDATA IN
         IF Falsy(appData) THEN None
         ELSE Some(join(Path(appData[1]), D_minecraft))
    ELSE Some(join(Path(env.home), D_minecraft))

JAR == <<".","j","a","r">>
ZIP == <<".","z","i","p">>

S_fabric_api == <<"f","a","b","r","i","c","-","a","p","i">>
S_lambdynamiclights ==
  <<"l","a","m","b","d","y","n","a","m","i","c","l","i","g","h","t","s">>
S_modmenu == <<"m","o","d","m","e","n","u">>
S_sodium == <<"s","o","d","i","u","m">>
S_xaeros_minimap == <<"x","a","e","r","o","s","-","m","i","n","i","m","a","p">>
S_xaeros_world_map ==
  <<"x","a","e","r","o","s","-","w","o","r","l","d","-","m","a","p">>
S_complementary == <<"c","o","m","p","l","e","m","e","n","t","a","r","y">>
S_complementary_reimagined ==
  S_complementary \o <<"-","r","e","i","m","a","g","i","n","e","d">>

MODS == << [slug |-> S_fabric_api,        name |-> "Fabric API"],
           [slug |-> S_lambdynamiclights, name |-> "Lamb Dynamic Lights"],
           [slug |-> S_modmenu,           name |-> "Mod Menu"],
           [slug |-> S_sodium,            name |-> "Sodium"],
           [slug |-> S_xaeros_minimap,    name |-> "Xaero's Minimap"],
           [slug |-> S_xaeros_world_map,  name |-> "Xaero's World Map"] >>

ShaderIdx_ManifestOnly == Len(MODS)

ShaderIdx == Len(MODS) + 1
Entries == 1..ShaderIdx

(* slug given to findExistingMod / findExistingShader for entry e *)
CheckSlug_FetchId(e) ==
  IF e = ShaderIdx THEN S_complementary_reimagined ELSE MODS[e].slug

CheckSlug(e) == IF e = ShaderIdx THEN S_complementary ELSE MODS[e].slug

(* slug given to downloadMod for entry e *)
FetchSlug(e) ==
  IF e = ShaderIdx THEN S_complementary_reimagined ELSE MODS[e].slug

(* ---------------- file names of the model ------------------------------ *)

F_mod_jar == <<"m","o","d">> \o JAR
F_Sodium_jar == <<"S","o","d","i","u","m">> \o JAR
F_sodium_zip == S_sodium \o ZIP
F_fabric_api_jar == <<"f","a","b","r","i","c","_","a","p","i">> \o JAR
F_shader_zip == <<"s","h","a","d","e","r">> \o ZIP
F_complementary_zip == <<"C","o","m","p","l","e","m","e","n","t","a","r","y">> \o ZIP
(* a registry file name with directory parts: "../shaderpacks/shader.zip" *)
F_escape == <<".", ".", "/">> \o D_shaderpacks \o <<"/">> \o F_shader_zip
(* a registry file name that leaves the shaderpacks directory: *)
(* "../mods/Complementary.zip"                                  *)
F_escape_shader == <<".", ".", "/">> \o D_mods \o <<"/">> \o F_complementary_zip

Canonical(e) ==
  IF e = ShaderIdx THEN F_complementary_zip ELSE MODS[e].slug \o JAR

(* readdirSync returns the entries in one fixed order *)
ScanOrder ==
  << F_sodium_zip, F_Sodium_jar, F_fabric_api_jar, F_mod_jar, F_shader_zip,
     F_complementary_zip >>
  \o [e \in 1..Len(MODS) |-> Canonical(e)]

(* ---------------- directories ------------------------------------------ *)

(* content tags: a file of the user, a file of the staging folders, and   *)
(* the body served for a registry file url                                *)
User == <<"user">>
Local == <<"local">>
Remote(url) == <<"remote">> \o url

DirOf(names, c) == [x \in names |-> c]

EmptyDir == DirOf({}, User)

Put(dir, f, c) == [x \in (DOMAIN dir) \cup {f} |-> IF x = f THEN c ELSE dir[x]]

Remove(dir, f) == [x \in (DOMAIN dir) \ {f} |-> dir[x]]

readdirSync(dir) == SelectSeq(ScanOrder, LAMBDA f : f \in DOMAIN dir)

existsSync(dir, f) == f \in DOMAIN dir

copyFileSync_Dropped(src, dst, f) == dst

copyFileSync(src, dst, f) == Put(dst, f, src[f])

rmSync(dir, f) == Remove(dir, f)

FilterJar_All(files) == files

(* .filter((f) => f.endsWith(".jar")) *)
FilterJar(files) == SelectSeq(files, LAMBDA f : endsWith(f, JAR))

(* ---------------- helper functions (index.ts 83-184) ------------------- *)

checkExistingFile_Never(filename, searchDir) == FALSE

checkExistingFile(filename, searchDir) == existsSync(searchDir, filename)

modMatchesFilename_SlugOnly(filename, projectSlug) ==
  includes(toLowerCase(filename), toLowerCase(projectSlug))

modMatchesFilename(filename, projectSlug) ==
  LET filenameLower == toLowerCase(filename)
      slugLower == toLowerCase(projectSlug)
      slugUnderscore == replaceHyphens(slugLower)
  IN  includes(filenameLower, slugLower) \/ includes(filenameLower, slugUnderscore)

RECURSIVE ScanShaders(_, _)
ScanShaders(files, slug) ==
  IF files = << >> THEN None
  ELSE IF modMatchesFilename(Head(files), slug)
    THEN Some(Head(files))
    ELSE ScanShaders(Tail(files), slug)

findExistingShader(slug, searchDir) == ScanShaders(readdirSync(searchDir), slug)

RECURSIVE ScanMods(_, _)
ScanMods(files, slug) ==
  IF files = << >> THEN None
  ELSE IF endsWith(Head(files), JAR) /\ modMatchesFilename(Head(files), slug)
    THEN Some(Head(files))
    ELSE ScanMods(Tail(files), slug)

findExistingMod_AnyExt(slug, searchDir) == ScanShaders(readdirSync(searchDir), slug)

findExistingMod(slug, searchDir) == ScanMods(readdirSync(searchDir), slug)

(* ---------------- registry (ModrinthVersion, index.ts 20-26) ----------- *)

File(e, r, k, filename) == [url |-> <<e, r, k>>, filename |-> filename]

Release(v, files) == Some([version_number |-> v, files |-> files])

OneRelease(e) == Some(<< Release("v1", Some(<< File(e, 1, 1, Canonical(e)) >>)) >>)

(* every package has one release with one file *)
R_all == [e \in Entries |-> OneRelease(e)]

(* nothing is available: [] or null *)
R_none == [e \in Entries |-> IF e = 2 THEN None ELSE Some(<< >>)]

(* every package but sodium has one release with one file; sodium: [] *)
R_sodium == [e \in Entries |-> IF e = 4 THEN Some(<< >>) ELSE OneRelease(e)]

(* several releases and files, odd file names, malformed entries *)
R_odd ==
  [e \in Entries |->
     CASE e = 1 -> Some(<< Release("v2", Some(<< File(1, 1, 1, F_mod_jar),
                                                File(1, 1, 2, Canonical(1)) >>)),
                           Release("v1", Some(<< File(1, 2, 1, Canonical(1)) >>)) >>)
       [] e = 2 -> Some(<< None >>)
       [] e = 3 -> Some(<< Release("v1", Some(<< >>)) >>)
       [] e = 4 -> Some(<< Release("v1", None) >>)
       [] e = 5 -> Some(<< Release("v1", Some(<< File(5, 1, 1, F_mod_jar) >>)) >>)
       [] e = 6 -> Some(<< Release("v1", Some(<< File(6, 1, 1, F_escape) >>)) >>)
       [] OTHER -> Some(<< Release("v1", Some(<< File(e, 1, 1, F_escape_shader) >>)) >>)]

(* the registry answers by project slug *)
BySlug(r) ==
  [s \in {FetchSlug(e) : e \in Entries} |->
     r[CHOOSE e \in Entries : FetchSlug(e) = s]]

RegistryStates ==
  { BySlug(R_all), BySlug(R_none), BySlug(R_sodium), BySlug(R_odd) }

(* downloadMod, lines 119-136: the file entry chosen from the parsed body, *)
(* None when the function returns false (or throws into its catch)         *)
FirstFile(versions) ==
  IF versions = None THEN None
  ELSE IF Len(versions[1]) = 0 THEN None
  ELSE LET latestVersion == versions[1][1] IN
    IF latestVersion = None THEN None
    ELSE IF latestVersion[1].files = None THEN None
    ELSE IF Len(latestVersion[1].files[1]) = 0 THEN None
    ELSE Some(latestVersion[1].files[1][1])

(* ---------------- summary (index.ts 453-471) --------------------------- *)

SummaryKind_AnySource(localCopy, success, skip, fail) ==
  IF fail = 0 THEN "all_ready"
  ELSE IF localCopy + success + skip > 0 THEN "partial"
  ELSE "total_failure"

SummaryKind(localCopy, success, skip, fail) ==
  IF fail = 0 THEN "all_ready"
  ELSE IF success > 0 \/ localCopy > 0 THEN "partial"
  ELSE "total_failure"

(* ---------------- bounds and inputs ------------------------------------ *)

MaxRuns == 2

MaxFaults == 1

V_1_21_10 == <<"1",".","2","1",".","1","0">>

VersionInputs ==
  { None, Some(<< >>), Some(<<" ">>), Some(V_1_21_10),
    Some(<<" ">> \o V_1_21_10 \o <<" ">>) }

CleanupInputs ==
  { None, Some(<< >>), Some(<<"y">>), Some(<<"Y">>), Some(<<"n">>),
    Some(<<"y","e","s">>) }

(* both staging folders exist and are empty *)
EmptyStaging == [mods |-> Some(EmptyDir), shaders |-> Some(EmptyDir)]

(* the platform and environment the script is started in *)
HOME_unix == <<"/","h","o","m","e","/","u">>
HOME_mac == <<"/","U","s","e","r","s","/","u">>
HOME_win == <<"C",":","/","U","s","e","r","s","/","u">>
APPDATA_win == <<"C",":","/","U","s","e","r","s","/","u","/","A","p","p","D","a","t","a","/","R","o","a","m","i","n","g">>

Environments ==
  { [platform |-> "linux",   env |-> [home |-> HOME_unix, APPDATA |-> None]],
    [platform |-> "freebsd", env |-> [home |-> HOME_unix, APPDATA |-> Some(APPDATA_win)]],
    [platform |-> "darwin",  env |-> [home |-> HOME_mac,  APPDATA |-> None]],
    [platform |-> "win32",   env |-> [home |-> HOME_win,  APPDATA |-> Some(APPDATA_win)]],
    [platform |-> "win32",   env |-> [home |-> HOME_win,  APPDATA |-> None]],
    [platform |-> "win32",   env |-> [home |-> HOME_win,  APPDATA |-> Some(<< >>)]] }

Linux == [platform |-> "linux", env |-> [home |-> HOME_unix, APPDATA |-> None]]

(* the situations a first run starts in. Installed directories: a fresh   *)
(* profile, mods only, mods with a stray archive and a shader pack.       *)
(* Staging folders next to the script: absent, holding mods and a shader, *)
(* holding mods only, or empty. On linux every installed profile meets    *)
(* every staging state and every registry state once, and a fresh profile *)
(* meets the registry that lacks one package; every other platform meets  *)
(* one situation                                                          *)
InitScenarios ==
  LET I_fresh == [mods |-> EmptyDir, shaders |-> EmptyDir]
      I_mods == [mods |-> DirOf({F_fabric_api_jar, F_mod_jar}, User),
                 shaders |-> EmptyDir]
      I_full == [mods |-> DirOf({F_fabric_api_jar, F_mod_jar, F_sodium_zip}, User),
                 shaders |-> DirOf({F_shader_zip}, User)]
      S_absent == [mods |-> None, shaders |-> None]
      S_both == [mods |-> Some(DirOf({F_Sodium_jar, F_sodium_zip}, Local)),
                 shaders |-> Some(DirOf({F_shader_zip}, Local))]
      S_mods == [mods |-> Some(DirOf({F_mod_jar, F_Sodium_jar}, Local)),
                 shaders |-> Some(EmptyDir)]
      On(i, s, r, e) ==
        [installed |-> i, staging |-> s, registry |-> BySlug(r), on |-> e]
  IN  { On(I_fresh, S_absent, R_all, Linux),
        On(I_fresh, S_both, R_none, Linux),
        On(I_fresh, S_mods, R_odd, Linux),
        On(I_mods, S_absent, R_none, Linux),
        On(I_mods, S_both, R_odd, Linux),
        On(I_mods, S_mods, R_all, Linux),
        On(I_full, S_absent, R_odd, Linux),
        On(I_full, S_both, R_all, Linux),
        On(I_full, S_mods, R_none, Linux),
        On(I_fresh, EmptyStaging, R_sodium, Linux) }
      \cup { On(I_full, S_both, R_odd, e) : e \in Environments \ {Linux} }

InitInstalled == { sc.installed : sc \in InitScenarios }

InitStagings == { sc.staging : sc \in InitScenarios }

(* ---------------- state ------------------------------------------------ *)

VARIABLES
  run,            \* number of the current invocation of the script
  pc,             \* position of main()
  exitCode,       \* None while running, Some(status) once the process ended
  fatalAt,        \* the stage whose failure ended the run, "" otherwise
  faults,         \* failed network / file-system operations so far
  mcVersion,      \* const mcVersion (trimmed prompt answer)
  shouldCleanup,  \* const shouldCleanup
  answer,         \* the result of the last prompt() until the next stage begins
  installer,      \* INSTALLER exists in the working directory
  javaOk,         \* `java -version` succeeded in this run
  installerCalls, \* invocations of the loader installer in this run
  created,        \* directories this run has passed to mkdirSync
  modsDir,        \* MODS_DIR: file name -> content
  shadersDir,     \* SHADERPACKS_DIR
  backupMods,     \* <backupDir>/mods of the current date
  backupShaders,  \* <backupDir>/shaderpacks of the current date
  staging,        \* LOCAL_MODS_DIR and LOCAL_SHADERS_DIR
  registry,       \* what the registry serves per project slug
  platform,       \* process.platform
  env,            \* homedir() and process.env.APPDATA
  minecraftDir,   \* const MINECRAFT_DIR: None until the module has been loaded
  todo,           \* rest of the file list of the loop being executed
  idx,            \* position in MODS (ShaderIdx: the shader entry)
  existing,       \* existingMod / existingShader of the current entry
  pending,        \* the file entry chosen by downloadMod, not yet fetched
  localCopyCount,
  successCount,
  failCount,
  skipCount,
  summary,        \* which of the three final messages was printed
  queries,        \* per entry: version-list requests sent in this run
  downloads,      \* per entry: file requests sent in this run
  installerGets,  \* requests sent to INSTALLER_URL in this run
  delays,         \* per entry: completed Bun.sleep(500) calls in this run
  start,          \* the file system when this run started
  cleanStart,     \* the installed directories when cleanup began
  merged,         \* local merge has completed in this run
  prevMerged,     \* local merge completed in the previous run
  backupAt,       \* None, or Some(instant) read by `new Date()` in the latest cleanup
  call,           \* a helper function called on its own, with its arguments
  ret             \* None until the called function has returned, then Some(result)

fsVars == <<installer, modsDir, shadersDir, backupMods, backupShaders>>
envVars == <<staging, registry, platform, env, minecraftDir>>
cfgVars == <<mcVersion, shouldCleanup, answer>>
loopVars == <<todo, idx, existing, pending>>
countVars == <<localCopyCount, successCount, failCount, skipCount, summary>>
reqVars == <<queries, downloads, installerGets, delays>>
histVars == <<javaOk, installerCalls, created, start, cleanStart, merged, prevMerged>>
callVars == <<call, ret>>

vars == <<run, pc, exitCode, fatalAt, faults, cfgVars, fsVars, envVars,
          loopVars, countVars, reqVars, histVars, callVars, backupAt>>

(* index.ts 66-68 *)
MINECRAFT_DIR == minecraftDir[1]
MODS_DIR == join(MINECRAFT_DIR, D_mods)
SHADERPACKS_DIR == join(MINECRAFT_DIR, D_shaderpacks)

FileSystem ==
  [installer |-> installer, mods |-> modsDir, shaders |-> shadersDir,
   backupMods |-> backupMods, backupShaders |-> backupShaders]

NoRequests == [e \in Entries |-> 0]

(* no helper function is called on its own during a run of main() *)
NoCall == [fn |-> "none"]

MainInit ==
  /\ run = 1
  /\ pc = "load"
  /\ exitCode = None
  /\ fatalAt = ""
  /\ faults = 0
  /\ mcVersion = << >>
  /\ shouldCleanup = FALSE
  /\ answer = None
  /\ installer = FALSE
  /\ javaOk = FALSE
  /\ installerCalls = 0
  /\ created = {}
  /\ \E sc \in InitScenarios :
       /\ sc.registry \in RegistryStates
       /\ sc.on \in Environments
       /\ modsDir = sc.installed.mods
       /\ shadersDir = sc.installed.shaders
       /\ staging = sc.staging
       /\ registry = sc.registry
       /\ platform = sc.on.platform
       /\ env = sc.on.env
  /\ backupMods = EmptyDir
  /\ backupShaders = EmptyDir
  /\ backupAt = None
  /\ minecraftDir = None
  /\ todo = << >>
  /\ idx = 0
  /\ existing = None
  /\ pending = None
  /\ localCopyCount = 0
  /\ successCount = 0
  /\ failCount = 0
  /\ skipCount = 0
  /\ summary = "none"
  /\ queries = NoRequests
  /\ downloads = NoRequests
  /\ installerGets = 0
  /\ delays = NoRequests
  /\ start = [installer |-> FALSE, mods |-> modsDir, shaders |-> shadersDir,
              backupMods |-> EmptyDir, backupShaders |-> EmptyDir]
  /\ cleanStart = [mods |-> EmptyDir, shaders |-> EmptyDir,
                   backupMods |-> EmptyDir, backupShaders |-> EmptyDir]
  /\ merged = FALSE
  /\ prevMerged = FALSE

Init ==
  /\ MainInit
  /\ call = NoCall
  /\ ret = None

(* an operation of the environment may fail while the budget lasts *)
Outcomes(failures) == {"ok"} \cup (IF faults < MaxFaults THEN failures ELSE {})

Fault(out) == faults' = IF out = "ok" THEN faults ELSE faults + 1

(* process.exit(1), directly or from main().catch (index.ts 487-490) *)
Fatal(stage) ==
  /\ pc' = "exited"
  /\ exitCode' = Some(1)
  /\ fatalAt' = stage

Continue(next) ==
  /\ pc' = next
  /\ UNCHANGED <<exitCode, fatalAt>>

(* ---------------- main(): prompts and prerequisites (224-276) ---------- *)

(* the module is loaded: MINECRAFT_DIR = getMinecraftDir() (index.ts 66); *)
(* an exception here is uncaught and ends the process before main()       *)
Load ==
  /\ pc = "load"
  /\ minecraftDir' = getMinecraftDir(platform, env)
  /\ IF minecraftDir' = None THEN Fatal("config") ELSE Continue("prompt_version")
  /\ UNCHANGED <<run, faults, cfgVars, fsVars, staging, registry, platform, env,
                 callVars, backupAt, loopVars, countVars, reqVars, histVars>>

(* cleanupPrompt?.toLowerCase() === "y" (index.ts 240) *)
ShouldCleanup_AnyAnswer(cleanupPrompt) == cleanupPrompt # None

ShouldCleanup(cleanupPrompt) ==
  cleanupPrompt # None /\ toLowerCase(cleanupPrompt[1]) = <<"y">>

PromptVersion ==
  /\ pc = "prompt_version"
  /\ \E mcVersionPrompt \in VersionInputs :
       /\ answer' = mcVersionPrompt
       /\ IF Falsy(mcVersionPrompt)
            THEN Fatal("version") /\ UNCHANGED mcVersion
            ELSE mcVersion' = trim(mcVersionPrompt[1]) /\ Continue("prompt_cleanup")
  /\ UNCHANGED <<run, faults, shouldCleanup, fsVars, envVars, callVars, backupAt, loopVars,
                 countVars, reqVars, histVars>>

PromptCleanup ==
  /\ pc = "prompt_cleanup"
  /\ \E cleanupPrompt \in CleanupInputs :
       /\ answer' = cleanupPrompt
       /\ shouldCleanup' = ShouldCleanup(cleanupPrompt)
  /\ Continue("ensure_installer")
  /\ UNCHANGED <<run, faults, mcVersion, fsVars, envVars, callVars, backupAt, loopVars,
                 countVars, reqVars, histVars>>

(* existsSync(INSTALLER) (index.ts 188) *)
InstallerExists_Ignored == FALSE

InstallerExists == installer

(* index.ts 187-213: one fetch(INSTALLER_URL), then Bun.write(INSTALLER) *)
ensureFabricInstaller ==
  /\ pc = "ensure_installer"
  /\ IF InstallerExists
       THEN Continue("check_java") /\ UNCHANGED <<installer, faults, installerGets>>
       ELSE \E out \in Outcomes({"throw", "status", "write"}) :
              /\ Fault(out)
              /\ installerGets' = installerGets + 1
              /\ IF out = "ok"
                   THEN installer' = TRUE /\ Continue("check_java")
                   ELSE Fatal("installer_download") /\ UNCHANGED installer
  /\ answer' = None
  /\ UNCHANGED <<run, mcVersion, shouldCleanup, modsDir, shadersDir, backupMods, backupShaders,
                 envVars, callVars, backupAt, loopVars, countVars, queries, downloads,
                 delays, histVars>>

CheckJava ==
  /\ pc = "check_java"
  /\ \E ok \in BOOLEAN :
       /\ javaOk' = ok
       /\ IF ok THEN Continue("install_fabric") ELSE Fatal("java")
  /\ UNCHANGED <<run, faults, cfgVars, fsVars, envVars, callVars, backupAt, loopVars, countVars,
                 reqVars, installerCalls, created, start, cleanStart, merged,
                 prevMerged>>

(* the catch of the installer invocation (index.ts 264-267) *)
InstallerFailed_FallsThrough ==
  /\ pc' = "create_dirs"
  /\ exitCode' = exitCode
  /\ fatalAt' = "install_fabric"

InstallerFailed == Fatal("install_fabric")

InstallFabric ==
  /\ pc = "install_fabric"
  /\ installerCalls' = installerCalls + 1
  /\ \E status \in {0, 1} :
       IF status = 0 THEN Continue("create_dirs") ELSE InstallerFailed
  /\ UNCHANGED <<run, faults, cfgVars, fsVars, envVars, callVars, backupAt, loopVars, countVars,
                 reqVars, javaOk, created, start, cleanStart, merged, prevMerged>>

CreateDirs ==
  /\ pc = "create_dirs"
  /\ \E out \in Outcomes({"throw"}) :
       /\ Fault(out)
       /\ IF out = "ok"
            THEN created' = created \cup {"mods", "shaderpacks"} /\ Continue("cleanup")
            ELSE Fatal("create_dirs") /\ UNCHANGED created
  /\ UNCHANGED <<run, cfgVars, fsVars, envVars, callVars, backupAt, loopVars, countVars, reqVars,
                 javaOk, installerCalls, start, cleanStart, merged, prevMerged>>

(* ---------------- main(): cleanup (index.ts 279-331) ------------------- *)

(* an instant is a day of November 2026 and a second of the minute 10:00 *)
Digits == <<"0","1","2","3","4","5","6","7","8","9">>

(* what `new Date()` yields in run r: the first two runs are started one *)
(* second apart on the same day, every later run on a following day      *)
Now(r) ==
  IF r <= 2 THEN [day |-> 1, sec |-> r - 1] ELSE [day |-> r - 1, sec |-> 0]

(* Date.prototype.toISOString: YYYY-MM-DDTHH:mm:ss.sssZ *)
toISOString(t) ==
  <<"2","0","2","6","-","1","1","-","0">> \o << Digits[t.day + 1] >>
  \o <<"T","1","0",":","0","0",":","0">> \o << Digits[t.sec + 1] >> \o <<".","0","0","0","Z">>

(* .replace(/[:.]/g, "-") *)
replaceColonsDots(s) ==
  [i \in 1..Len(s) |-> IF s[i] \in {":", "."} THEN "-" ELSE s[i]]

(* .split("T") *)
RECURSIVE SplitT(_, _)
SplitT(s, seg) ==
  IF s = << >> THEN << seg >>
  ELSE IF Head(s) = "T" THEN << seg >> \o SplitT(Tail(s), << >>)
  ELSE SplitT(Tail(s), Append(seg, Head(s)))

(* index.ts 282-285 *)
Timestamp(t) == SplitT(replaceColonsDots(toISOString(t)), << >>)[1]

(* the name of backupDir under <home>/Desktop (index.ts 286-290) *)
BackupDirName(t) == <<"m","i","n","e","c","r","a","f","t","_","m","o","d","s","_","b","a","c","k","u","p","_">> \o Timestamp(t)

CleanupStart ==
  /\ pc = "cleanup"
  /\ IF ~shouldCleanup
       THEN /\ Continue("merge_mods_start")
            /\ UNCHANGED <<faults, created, cleanStart, todo, backupAt,
                           backupMods, backupShaders>>
       ELSE \E out \in Outcomes({"throw"}) :
              /\ Fault(out)
              /\ IF out = "ok"
                   THEN /\ created' = created \cup {"backup/mods", "backup/shaderpacks"}
                        /\ LET t == Now(run) IN
                             /\ backupAt' = Some(t)
                             /\ IF backupAt # None
                                    /\ BackupDirName(backupAt[1]) = BackupDirName(t)
                                  THEN UNCHANGED <<backupMods, backupShaders>>
                                  ELSE /\ backupMods' = EmptyDir
                                       /\ backupShaders' = EmptyDir
                        /\ cleanStart' = [mods |-> modsDir, shaders |-> shadersDir,
                                          backupMods |-> backupMods',
                                          backupShaders |-> backupShaders']
                        /\ todo' = FilterJar(readdirSync(modsDir))
                        /\ Continue("clean_mods")
                   ELSE /\ Fatal("cleanup")
                        /\ UNCHANGED <<created, cleanStart, todo, backupAt,
                                       backupMods, backupShaders>>
  /\ UNCHANGED <<run, cfgVars, installer, modsDir, shadersDir, envVars, callVars, idx, existing, pending,
                 countVars, reqVars, javaOk, installerCalls, start, merged,
                 prevMerged>>

CleanModsCopy ==
  /\ pc = "clean_mods"
  /\ todo # << >>
  /\ \E out \in Outcomes({"throw"}) :
       /\ Fault(out)
       /\ IF out = "ok"
            THEN /\ backupMods' = copyFileSync(modsDir, backupMods, Head(todo))
                 /\ Continue("clean_mods_rm")
            ELSE Fatal("cleanup") /\ UNCHANGED backupMods
  /\ UNCHANGED <<run, cfgVars, installer, modsDir, shadersDir, backupShaders,
                 envVars, callVars, backupAt, loopVars, countVars, reqVars, histVars>>

CleanModsRm ==
  /\ pc = "clean_mods_rm"
  /\ \E out \in Outcomes({"throw"}) :
       /\ Fault(out)
       /\ IF out = "ok"
            THEN /\ modsDir' = rmSync(modsDir, Head(todo))
                 /\ todo' = Tail(todo)
                 /\ Continue("clean_mods")
            ELSE Fatal("cleanup") /\ UNCHANGED <<modsDir, todo>>
  /\ UNCHANGED <<run, cfgVars, installer, shadersDir, backupMods, backupShaders,
                 envVars, callVars, backupAt, idx, existing, pending, countVars, reqVars, histVars>>

CleanModsDone ==
  /\ pc = "clean_mods"
  /\ todo = << >>
  /\ todo' = readdirSync(shadersDir)
  /\ Continue("clean_shaders")
  /\ UNCHANGED <<run, faults, cfgVars, fsVars, envVars, callVars, backupAt, idx, existing, pending,
                 countVars, reqVars, histVars>>

CleanShadersCopy ==
  /\ pc = "clean_shaders"
  /\ todo # << >>
  /\ \E out \in Outcomes({"throw"}) :
       /\ Fault(out)
       /\ IF out = "ok"
            THEN /\ backupShaders' = copyFileSync(shadersDir, backupShaders, Head(todo))
                 /\ Continue("clean_shaders_rm")
            ELSE Fatal("cleanup") /\ UNCHANGED backupShaders
  /\ UNCHANGED <<run, cfgVars, installer, modsDir, shadersDir, backupMods,
                 envVars, callVars, backupAt, loopVars, countVars, reqVars, histVars>>

CleanShadersRm ==
  /\ pc = "clean_shaders_rm"
  /\ \E out \in Outcomes({"throw"}) :
       /\ Fault(out)
       /\ IF out = "ok"
            THEN /\ shadersDir' = rmSync(shadersDir, Head(todo))
                 /\ todo' = Tail(todo)
                 /\ Continue("clean_shaders")
            ELSE Fatal("cleanup") /\ UNCHANGED <<shadersDir, todo>>
  /\ UNCHANGED <<run, cfgVars, installer, modsDir, backupMods, backupShaders,
                 envVars, callVars, backupAt, idx, existing, pending, countVars, reqVars, histVars>>

CleanupDone ==
  /\ pc = "clean_shaders"
  /\ todo = << >>
  /\ Continue("merge_mods_start")
  /\ UNCHANGED <<run, faults, cfgVars, fsVars, envVars, callVars, backupAt, loopVars, countVars,
                 reqVars, histVars>>

(* ---------------- main(): local merge (index.ts 334-387) --------------- *)

MergeModsStart ==
  /\ pc = "merge_mods_start"
  /\ localCopyCount' = 0
  /\ todo' = IF staging.mods = None
               THEN << >>
               ELSE FilterJar(readdirSync(staging.mods[1]))
  /\ Continue("merge_mods")
  /\ UNCHANGED <<run, faults, cfgVars, fsVars, envVars, callVars, backupAt, idx, existing, pending,
                 successCount, failCount, skipCount, summary, reqVars, histVars>>

MergeModsFile ==
  /\ pc = "merge_mods"
  /\ todo # << >>
  /\ IF checkExistingFile(Head(todo), modsDir)
       THEN /\ todo' = Tail(todo)
            /\ Continue("merge_mods")
            /\ UNCHANGED <<faults, modsDir, localCopyCount>>
       ELSE \E out \in Outcomes({"throw"}) :
              /\ Fault(out)
              /\ IF out = "ok"
                   THEN /\ modsDir' = copyFileSync(staging.mods[1], modsDir, Head(todo))
                        /\ localCopyCount' = localCopyCount + 1
                        /\ todo' = Tail(todo)
                        /\ Continue("merge_mods")
                   ELSE Fatal("merge") /\ UNCHANGED <<modsDir, localCopyCount, todo>>
  /\ UNCHANGED <<run, cfgVars, installer, shadersDir, backupMods, backupShaders,
                 envVars, callVars, backupAt, idx, existing, pending, successCount, failCount,
                 skipCount, summary, reqVars, histVars>>

MergeShadersStart ==
  /\ pc = "merge_mods"
  /\ todo = << >>
  /\ todo' = IF staging.shaders = None
               THEN << >>
               ELSE readdirSync(staging.shaders[1])
  /\ Continue("merge_shaders")
  /\ UNCHANGED <<run, faults, cfgVars, fsVars, envVars, callVars, backupAt, idx, existing, pending,
                 countVars, reqVars, histVars>>

MergeShadersFile ==
  /\ pc = "merge_shaders"
  /\ todo # << >>
  /\ IF checkExistingFile(Head(todo), shadersDir)
       THEN /\ todo' = Tail(todo)
            /\ Continue("merge_shaders")
            /\ UNCHANGED <<faults, shadersDir, localCopyCount>>
       ELSE \E out \in Outcomes({"throw"}) :
              /\ Fault(out)
              /\ IF out = "ok"
                   THEN /\ shadersDir' = copyFileSync(staging.shaders[1], shadersDir, Head(todo))
                        /\ localCopyCount' = localCopyCount + 1
                        /\ todo' = Tail(todo)
                        /\ Continue("merge_shaders")
                   ELSE Fatal("merge") /\ UNCHANGED <<shadersDir, localCopyCount, todo>>
  /\ UNCHANGED <<run, cfgVars, installer, modsDir, backupMods, backupShaders,
                 envVars, callVars, backupAt, idx, existing, pending, successCount, failCount,
                 skipCount, summary, reqVars, histVars>>

(* the stage that follows local merge: step 5, the download loop *)
(* (index.ts 389-397)                                            *)
AfterMerge_Cleanup == "cleanup"

AfterMerge == "fetch"

MergeDone ==
  /\ pc = "merge_shaders"
  /\ todo = << >>
  /\ successCount' = 0
  /\ failCount' = 0
  /\ skipCount' = 0
  /\ idx' = 1
  /\ merged' = TRUE
  /\ Continue(AfterMerge)
  /\ UNCHANGED <<run, faults, cfgVars, fsVars, envVars, callVars, backupAt, todo, existing, pending,
                 localCopyCount, summary, reqVars, javaOk, installerCalls,
                 created, start, cleanStart, prevMerged>>

(* ---------------- main(): remote fetch (index.ts 393-439) -------------- *)

(* where main() goes after entry e: Bun.sleep for a manifest entry, the    *)
(* summary for the shader entry                                            *)
After_ManifestOnly(e) == IF e >= Len(MODS) THEN "summary" ELSE "sleep"

After_DelayAlways(e) == "sleep"

After(e) == IF e = ShaderIdx THEN "summary" ELSE "sleep"

(* `if (existingMod)` / `if (existingShader)` (index.ts 400, 421) *)
AlreadyInstalled_Never(found) == FALSE

AlreadyInstalled(found) == found # None

(* downloadMod returned false: failCount++ (index.ts 407-409, 436-438) *)
Unavailable_Aborts ==
  /\ Fatal("fetch")
  /\ UNCHANGED failCount

Unavailable_Uncounted ==
  /\ UNCHANGED failCount
  /\ Continue(After(idx))

Unavailable ==
  /\ failCount' = failCount + 1
  /\ Continue(After(idx))

FindExisting ==
  /\ pc = "fetch"
  /\ existing' = IF idx = ShaderIdx
                   THEN findExistingShader(CheckSlug(idx), shadersDir)
                   ELSE findExistingMod(CheckSlug(idx), modsDir)
  /\ IF AlreadyInstalled(existing')
       THEN skipCount' = skipCount + 1 /\ Continue(After(idx))
       ELSE UNCHANGED skipCount /\ Continue("query")
  /\ UNCHANGED <<run, faults, cfgVars, fsVars, envVars, callVars, backupAt, todo, idx, pending,
                 localCopyCount, successCount, failCount, summary, reqVars,
                 histVars>>

(* downloadMod up to the choice of the file entry (index.ts 106-138) *)
Query ==
  /\ pc = "query"
  /\ queries' = [queries EXCEPT ![idx] = @ + 1]
  /\ \E out \in Outcomes({"throw", "status"}) :
       /\ Fault(out)
       /\ pending' = IF out = "ok" THEN FirstFile(registry[FetchSlug(idx)]) ELSE None
  /\ IF pending' = None
       THEN Unavailable
       ELSE UNCHANGED failCount /\ Continue("download")
  /\ UNCHANGED <<run, cfgVars, fsVars, envVars, callVars, backupAt, todo, idx, existing,
                 localCopyCount, successCount, skipCount, summary, downloads,
                 installerGets, delays, histVars>>

(* a path that names an existing directory cannot be written as a file *)
IsDirectory(path) ==
  path \in {<< >>, MINECRAFT_DIR, MODS_DIR, SHADERPACKS_DIR}

(* Bun.write(dest, body) as seen from the directory `target` *)
BunWrite(dir, target, dest, body) ==
  IF dest # << >> /\ SubSeq(dest, 1, Len(dest) - 1) = target
    THEN Put(dir, dest[Len(dest)], body)
    ELSE dir

(* downloadMod from the file request to the write (index.ts 141-155) *)
Download ==
  /\ pc = "download"
  /\ downloads' = [downloads EXCEPT ![idx] = @ + 1]
  /\ LET file == pending[1]
         dest == join(IF idx = ShaderIdx THEN SHADERPACKS_DIR ELSE MODS_DIR,
                      file.filename)
     IN  \E out \in Outcomes({"throw", "status", "write"}) :
           /\ Fault(out)
           /\ IF out = "ok" /\ ~IsDirectory(dest)
                THEN /\ modsDir' = BunWrite(modsDir, MODS_DIR, dest, Remote(file.url))
                     /\ shadersDir' = BunWrite(shadersDir, SHADERPACKS_DIR, dest,
                                               Remote(file.url))
                     /\ successCount' = successCount + 1
                     /\ UNCHANGED failCount
                     /\ Continue(After(idx))
                ELSE /\ Unavailable
                     /\ UNCHANGED <<modsDir, shadersDir, successCount>>
  /\ pending' = None
  /\ UNCHANGED <<run, cfgVars, installer, backupMods, backupShaders, envVars, callVars, backupAt,
                 todo, idx, existing, localCopyCount, skipCount, summary,
                 queries, installerGets, delays, histVars>>

(* the iterator of `for (const mod of MODS)` moves to the next element *)
NextEntry_Same(e) == e

NextEntry(e) == e + 1

(* await Bun.sleep(500), then the next iteration (index.ts 412-414) *)
Sleep ==
  /\ pc = "sleep"
  /\ delays' = [delays EXCEPT ![idx] = @ + 1]
  /\ idx' = NextEntry(idx)
  /\ Continue("fetch")
  /\ UNCHANGED <<run, faults, cfgVars, fsVars, envVars, callVars, backupAt, todo, existing, pending,
                 countVars, queries, downloads, installerGets, histVars>>

(* ---------------- main(): summary (index.ts 441-484) ------------------- *)

(* main() returns after the summary whatever was printed: the process    *)
(* ends with status 0                                                     *)
ExitStatus_ByOutcome(kind) == IF kind = "total_failure" THEN 1 ELSE 0

ExitStatus(kind) == 0

Summary ==
  /\ pc = "summary"
  /\ summary' = SummaryKind(localCopyCount, successCount, skipCount, failCount)
  /\ pc' = "exited"
  /\ exitCode' = Some(ExitStatus(summary'))
  /\ UNCHANGED <<run, fatalAt, faults, cfgVars, fsVars, envVars, callVars, backupAt, loopVars,
                 localCopyCount, successCount, failCount, skipCount, reqVars,
                 histVars>>

(* ---------------- the user starts the script again --------------------- *)

NewRun ==
  /\ pc = "exited"
  /\ run < MaxRuns
  /\ run' = run + 1
  /\ pc' = "load"
  /\ minecraftDir' = None
  /\ exitCode' = None
  /\ fatalAt' = ""
  /\ mcVersion' = << >>
  /\ shouldCleanup' = FALSE
  /\ answer' = None
  /\ javaOk' = FALSE
  /\ installerCalls' = 0
  /\ created' = {}
  /\ todo' = << >>
  /\ idx' = 0
  /\ existing' = None
  /\ pending' = None
  /\ localCopyCount' = 0
  /\ successCount' = 0
  /\ failCount' = 0
  /\ skipCount' = 0
  /\ summary' = "none"
  /\ queries' = NoRequests
  /\ downloads' = NoRequests
  /\ installerGets' = 0
  /\ delays' = NoRequests
  /\ start' = FileSystem
  /\ cleanStart' = [mods |-> EmptyDir, shaders |-> EmptyDir,
                    backupMods |-> EmptyDir, backupShaders |-> EmptyDir]
  /\ prevMerged' = merged
  /\ merged' = FALSE
  /\ UNCHANGED <<faults, fsVars, staging, registry, platform, env, callVars, backupAt>>

(* one step of main() *)
Main ==
  \/ Load
  \/ PromptVersion
  \/ PromptCleanup
  \/ ensureFabricInstaller
  \/ CheckJava
  \/ InstallFabric
  \/ CreateDirs
  \/ CleanupStart
  \/ CleanModsCopy
  \/ CleanModsRm
  \/ CleanModsDone
  \/ CleanShadersCopy
  \/ CleanShadersRm
  \/ CleanupDone
  \/ MergeModsStart
  \/ MergeModsFile
  \/ MergeShadersStart
  \/ MergeShadersFile
  \/ MergeDone
  \/ FindExisting
  \/ Query
  \/ Download
  \/ Sleep
  \/ Summary

Next == Main \/ NewRun

Spec == Init /\ [][Next]_vars

(* every awaited call returns, so main() keeps taking steps until it ends; *)
(* nothing obliges the user to start the script again                      *)
FairSpec == Spec /\ WF_vars(Main)

(* one run of the script from any of the initial situations, every       *)
(* awaited call returning                                                 *)
RunSpec == Init /\ [][Main]_vars /\ WF_vars(Main)

(* ---------------- helper functions called on their own ----------------- *)

(* file names and slugs given to modMatchesFilename *)
N_sodium_fabric ==
  <<"s","o","d","i","u","m","-","f","a","b","r","i","c","-","0",".","5",".",
    "8",".","j","a","r">>
N_modmenu ==
  <<"m","o","d","m","e","n","u","-","9",".","0",".","0",".","j","a","r">>
N_lamb_dynamic_lights ==
  <<"l","a","m","b","_","d","y","n","a","m","i","c","_","l","i","g","h","t",
    "s",".","j","a","r">>
N_lamb_hyphens ==
  <<"l","a","m","b","-","d","y","n","a","m","i","c","-","l","i","g","h","t",
    "s",".","j","a","r">>
N_xaeros_mixed ==
  <<"x","a","e","r","o","s","-","w","o","r","l","d","_","m","a","p",".","j",
    "a","r">>
N_xaeros_mixed2 ==
  <<"x","a","e","r","o","s","_","w","o","r","l","d","-","m","a","p",".","j",
    "a","r">>
N_xaeros_underscore ==
  <<"x","a","e","r","o","s","_","w","o","r","l","d","_","m","a","p",".","j",
    "a","r">>
N_xaeros_hyphen ==
  <<"x","a","e","r","o","s","-","w","o","r","l","d","-","m","a","p",".","j",
    "a","r">>
N_Xaeros_Upper ==
  <<"X","a","e","r","o","s","_","W","o","r","l","d","_","M","a","p",".","J",
    "A","R">>
N_xaeros_joined ==
  <<"x","a","e","r","o","s","w","o","r","l","d","m","a","p",".","j","a",
    "r">>
N_fabric_space == <<"f","a","b","r","i","c"," ","a","p","i",".","j","a","r">>
N_short == <<"s","o","d","i","u">>
S_Sodium_Upper == <<"S","o","d","i","u","m">>
S_XAEROS_UPPER ==
  <<"X","A","E","R","O","S","-","W","O","R","L","D","-","M","A","P">>

MatchFilenames ==
  { N_sodium_fabric, N_modmenu, N_lamb_dynamic_lights, N_lamb_hyphens,
    N_xaeros_mixed, N_xaeros_mixed2, N_xaeros_underscore, N_xaeros_hyphen,
    N_Xaeros_Upper, N_xaeros_joined, N_fabric_space, N_short, << >>,
    F_fabric_api_jar, F_Sodium_jar, F_complementary_zip }

MatchSlugs ==
  {MODS[e].slug : e \in 1..Len(MODS)}
    \cup {S_complementary, S_complementary_reimagined, S_Sodium_Upper,
          S_XAEROS_UPPER}

ModMatchesCalls ==
  [fn : {"modMatchesFilename"}, filename : MatchFilenames,
   projectSlug : MatchSlugs]

Calls == ModMatchesCalls

(* main() is not started: one call of a helper function with given inputs *)
CallInit ==
  /\ MainInit
  /\ modsDir = EmptyDir
  /\ staging.mods = None
  /\ registry = BySlug(R_all)
  /\ call \in Calls
  /\ ret = None

ApplyModMatchesFilename ==
  /\ call.fn = "modMatchesFilename"
  /\ ret = None
  /\ ret' = Some(modMatchesFilename(call.filename, call.projectSlug))
  /\ UNCHANGED <<run, pc, exitCode, fatalAt, faults, cfgVars, fsVars, envVars,
                 loopVars, countVars, reqVars, histVars, call, backupAt>>

CallNext == ApplyModMatchesFilename

CallSpec == CallInit /\ [][CallNext]_vars

(* ======================= properties ==================================== *)

CleanupPcs == {"clean_mods", "clean_mods_rm", "clean_shaders", "clean_shaders_rm"}
MergePcs == {"merge_mods", "merge_shaders"}
FetchPcs == {"fetch", "query", "download", "sleep"}

Names(dir) == DOMAIN dir
Jars(dir) == {f \in DOMAIN dir : endsWith(f, JAR)}
Elems(seq) == {seq[i] : i \in 1..Len(seq)}

CleanupCompleted == shouldCleanup /\ pc = "merge_mods_start"

(* C1: while cleanup runs (and when it has ended, normally or by an       *)
(* error), every .jar file that installed-mods held and every file that   *)
(* installed-shaderpacks held when cleanup began is still in its          *)
(* installed directory or is in the backup subfolder with its content:    *)
(* the copy precedes the delete.                                          *)
C1_BackupBeforeDelete ==
  (pc \in CleanupPcs \/ CleanupCompleted \/ fatalAt = "cleanup") =>
    /\ \A f \in Jars(cleanStart.mods) :
         \/ f \in Names(modsDir) /\ modsDir[f] = cleanStart.mods[f]
         \/ f \in Names(backupMods) /\ backupMods[f] = cleanStart.mods[f]
    /\ \A f \in Names(cleanStart.shaders) :
         \/ f \in Names(shadersDir) /\ shadersDir[f] = cleanStart.shaders[f]
         \/ f \in Names(backupShaders) /\ backupShaders[f] = cleanStart.shaders[f]

C1_Witness ==
  /\ pc \in CleanupPcs
  /\ \E f \in Jars(cleanStart.mods) : f \notin Names(modsDir) /\ f \in Names(backupMods)
  /\ \E f \in Names(cleanStart.shaders) :
       f \notin Names(shadersDir) /\ f \in Names(backupShaders)

(* C2: a step of downloadMod never ends the process; when it ends without *)
(* a download (network error, bad status, null or empty list, release or  *)
(* file entry missing, failed file request or write) the unavailable      *)
(* counter grows by exactly one, the other counters keep their value and  *)
(* main() moves on to the delay or, after the shader, to the summary.     *)
(* Every step of the fetch loop leads to the summary or strictly further  *)
(* along the manifest, so a run that enters the loop can only leave it    *)
(* through the summary.                                                   *)
FetchRank ==
  4 * idx + (CASE pc = "fetch" -> 0 [] pc = "query" -> 1
               [] pc = "download" -> 2 [] OTHER -> 3)

C2_Step ==
  /\ pc \in {"query", "download"} =>
       /\ idx' = idx
       /\ pc' \in {"download", After(idx)}
       /\ (pc' = After(idx) /\ successCount' = successCount) =>
            /\ failCount' = failCount + 1
            /\ skipCount' = skipCount
            /\ localCopyCount' = localCopyCount
       /\ (pc' = After(idx) /\ successCount' # successCount) =>
            /\ successCount' = successCount + 1
            /\ failCount' = failCount
  /\ pc \in FetchPcs =>
       /\ exitCode' = None
       /\ idx \in Entries
       /\ pc = "download" => pending # None
       /\ \/ pc' = "summary" /\ idx = ShaderIdx
          \/ pc' \in FetchPcs /\ FetchRank' > FetchRank

C2_FetchFailuresTallied == [][C2_Step]_vars

C2_Witness ==
  /\ pc = "summary"
  /\ failCount >= 2
  /\ faults > 0
  /\ successCount > 0

(* C3: an entry whose existing-installation check found a file adds one   *)
(* to the already-installed counter and sends nothing; a version query is *)
(* sent only for the current entry, only after its check found nothing,   *)
(* and only once; a file request only after that query, and only once.    *)
C3_Step ==
  /\ (pc = "fetch" /\ existing' # None) =>
       /\ skipCount' = skipCount + 1
       /\ queries' = queries
       /\ downloads' = downloads
       /\ pc' = After(idx)
  /\ (pc = "fetch" /\ existing' = None) => skipCount' = skipCount /\ pc' = "query"
  /\ pc # "exited" =>
       \A e \in Entries :
         /\ queries'[e] # queries[e] =>
              /\ e = idx
              /\ existing = None
              /\ queries[e] = 0
              /\ queries'[e] = 1
         /\ downloads'[e] # downloads[e] =>
              /\ e = idx
              /\ existing = None
              /\ queries[e] = 1
              /\ downloads[e] = 0
              /\ downloads'[e] = 1

C3_SkipInstalled == [][C3_Step]_vars

C3_Witness ==
  /\ pc = "summary"
  /\ skipCount > 0
  /\ \E e \in Entries : queries[e] = 1 /\ downloads[e] = 1
  /\ \E e \in Entries : queries[e] = 0

(* C4: the four fatal conditions end the process with status 1 at once:   *)
(* the loader installer has run only with the installer file present and  *)
(* the runtime check passed, it has not run at all after one of the three *)
(* earlier fatal conditions, and after any of the four no directory was   *)
(* created, the installed and backup directories are as the run found     *)
(* them, and no registry request was sent.                                *)
EarlyFatal == {"version", "installer_download", "java", "install_fabric"}

C4_FatalStopsRun ==
  /\ installerCalls > 0 => installer /\ javaOk
  /\ installerCalls <= 1
  /\ fatalAt \in EarlyFatal =>
       /\ pc = "exited"
       /\ exitCode = Some(1)
       /\ fatalAt # "install_fabric" => installerCalls = 0
       /\ created = {}
       /\ modsDir = start.mods
       /\ shadersDir = start.shaders
       /\ backupMods = start.backupMods
       /\ backupShaders = start.backupShaders
       /\ queries = NoRequests
       /\ downloads = NoRequests
       /\ localCopyCount = 0

C4_Witness ==
  /\ fatalAt = "install_fabric"
  /\ installerCalls = 1
  /\ exitCode = Some(1)
  /\ Names(modsDir) # {}

(* C5 as stated: after cleanup installed-mods holds 0 files and the       *)
(* backup mods subfolder holds as many files as installed-mods held       *)
(* before; the same for shaderpacks.                                      *)
C5_Original ==
  CleanupCompleted =>
    /\ Cardinality(Names(modsDir)) = 0
    /\ Cardinality(Names(backupMods)) = Cardinality(Names(cleanStart.mods))
    /\ Cardinality(Names(shadersDir)) = 0
    /\ Cardinality(Names(backupShaders)) = Cardinality(Names(cleanStart.shaders))

(* C5 amended: after cleanup installed-mods holds exactly its former      *)
(* files whose name does not end in .jar, the backup mods subfolder holds *)
(* what it held before plus every former .jar file of installed-mods      *)
(* (exactly those, hence as many, when it was empty); installed-          *)
(* shaderpacks holds 0 files and the backup shaderpacks subfolder holds   *)
(* what it held before plus every former file of installed-shaderpacks.   *)
C5_CleanupPostcondition ==
  CleanupCompleted =>
    /\ Jars(modsDir) = {}
    /\ Names(modsDir) = Names(cleanStart.mods) \ Jars(cleanStart.mods)
    /\ \A f \in Names(modsDir) : modsDir[f] = cleanStart.mods[f]
    /\ Names(backupMods) = Names(cleanStart.backupMods) \cup Jars(cleanStart.mods)
    /\ \A f \in Jars(cleanStart.mods) : backupMods[f] = cleanStart.mods[f]
    /\ Names(cleanStart.backupMods) = {} =>
         Cardinality(Names(backupMods)) = Cardinality(Jars(cleanStart.mods))
    /\ Cardinality(Names(shadersDir)) = 0
    /\ Names(backupShaders) = Names(cleanStart.backupShaders) \cup Names(cleanStart.shaders)
    /\ \A f \in Names(cleanStart.shaders) : backupShaders[f] = cleanStart.shaders[f]
    /\ Names(cleanStart.backupShaders) = {} =>
         Cardinality(Names(backupShaders)) = Cardinality(Names(cleanStart.shaders))

C5_Witness ==
  /\ CleanupCompleted
  /\ Cardinality(Jars(cleanStart.mods)) >= 2
  /\ Names(cleanStart.mods) # Jars(cleanStart.mods)
  /\ Names(cleanStart.shaders) # {}

(* C6 as stated: a failing copy, delete or backup-folder creation of the  *)
(* cleanup stage never ends the run.                                      *)
C6_CleanupNeverFatal ==
  (pc \in CleanupPcs \/ pc = "exited") => fatalAt # "cleanup"

(* C7: local merge takes the .jar files of the mods staging folder and    *)
(* all files of the shader staging folder, each once; a file whose name   *)
(* exists in the installed directory changes nothing, any other file is   *)
(* copied under its name with its content and adds one to the copied      *)
(* counter (unless the copy itself throws); no installed file is removed  *)
(* or given other content by local merge.                                 *)
StagedMods == IF staging.mods = None THEN {} ELSE Jars(staging.mods[1])
StagedShaders == IF staging.shaders = None THEN {} ELSE Names(staging.shaders[1])

C7_Step ==
  /\ pc = "merge_mods_start" =>
       Elems(todo') = StagedMods /\ Len(todo') = Cardinality(StagedMods)
  /\ (pc = "merge_mods" /\ todo = << >>) =>
       Elems(todo') = StagedShaders /\ Len(todo') = Cardinality(StagedShaders)
  /\ (pc = "merge_mods" /\ todo # << >>) =>
       /\ Head(todo) \in Names(modsDir) =>
            modsDir' = modsDir /\ localCopyCount' = localCopyCount
       /\ (Head(todo) \notin Names(modsDir) /\ pc' # "exited") =>
            /\ Names(modsDir') = Names(modsDir) \cup {Head(todo)}
            /\ modsDir'[Head(todo)] = staging.mods[1][Head(todo)]
            /\ localCopyCount' = localCopyCount + 1
       /\ shadersDir' = shadersDir
  /\ (pc = "merge_shaders" /\ todo # << >>) =>
       /\ Head(todo) \in Names(shadersDir) =>
            shadersDir' = shadersDir /\ localCopyCount' = localCopyCount
       /\ (Head(todo) \notin Names(shadersDir) /\ pc' # "exited") =>
            /\ Names(shadersDir') = Names(shadersDir) \cup {Head(todo)}
            /\ shadersDir'[Head(todo)] = staging.shaders[1][Head(todo)]
            /\ localCopyCount' = localCopyCount + 1
       /\ modsDir' = modsDir
  /\ pc \in MergePcs \cup {"merge_mods_start"} =>
       /\ \A f \in Names(modsDir) : f \in Names(modsDir') /\ modsDir'[f] = modsDir[f]
       /\ \A f \in Names(shadersDir) :
            f \in Names(shadersDir') /\ shadersDir'[f] = shadersDir[f]

C7_LocalMerge == [][C7_Step]_vars

C7_Witness ==
  /\ pc = "fetch"
  /\ idx = 1
  /\ localCopyCount = 1
  /\ F_mod_jar \in StagedMods
  /\ modsDir[F_mod_jar] = User
  /\ staging.mods[1][F_mod_jar] = Local

(* C8 as stated: a second run of local merge with the same staging files  *)
(* copies 0 files and counts every staged file in the already-present     *)
(* counter that the summary reports.                                      *)
SecondMerge == run >= 2 /\ prevMerged /\ ~shouldCleanup /\ merged

C9_Original ==
  summary # "none" =>
    /\ failCount = 0 => summary = "all_ready"
    /\ (failCount # 0 /\ localCopyCount + successCount + skipCount > 0) =>
         summary = "partial"
    /\ summary = "total_failure" =>
         failCount # 0 /\ localCopyCount + successCount + skipCount = 0

(* C9 amended: the summary reports all ready exactly when the unavailable *)
(* count is 0; otherwise partial success exactly when at least one file   *)
(* was copied from staging or downloaded in this run, and total failure   *)
(* when none was, whatever the already-installed count.                   *)
C9_TriState ==
  summary # "none" =>
    /\ summary \in {"all_ready", "partial", "total_failure"}
    /\ summary = "all_ready" <=> failCount = 0
    /\ summary = "partial" <=> (failCount # 0 /\ (successCount # 0 \/ localCopyCount # 0))
    /\ summary = "total_failure" <=>
         (failCount # 0 /\ successCount = 0 /\ localCopyCount = 0)

C9_Witness ==
  /\ summary = "total_failure"
  /\ skipCount > 0

(* C10 as stated: the check reports the entry installed exactly when some *)
(* file of the directory has a lowercased name containing the identifier  *)
(* or its underscore form, whatever the extension, and reports the first  *)
(* such file in scan order.                                               *)
NameMatches(f, slug) ==
  LET lower == toLowerCase(f)
      forms == {slug, replaceHyphens(slug)}
  IN  \E i \in 1..(Len(f) - Len(slug) + 1) :
        SubSeq(lower, i, i + Len(slug) - 1) \in forms

ScanPos(f) == CHOOSE i \in 1..Len(ScanOrder) : ScanOrder[i] = f

FirstOf(candidates, found) ==
  IF candidates = {} THEN found = None
  ELSE /\ found # None
       /\ found[1] \in candidates
       /\ \A g \in candidates : ScanPos(found[1]) <= ScanPos(g)

SearchDir(e) == IF e = ShaderIdx THEN shadersDir ELSE modsDir

C10_OriginalStep ==
  pc = "fetch" =>
    LET candidates == {f \in Names(SearchDir(idx)) : NameMatches(f, CheckSlug(idx))}
    IN  FirstOf(candidates, existing')

C10_Original == [][C10_OriginalStep]_vars

(* C10 amended: for a manifest entry the check considers only files whose *)
(* name ends in ".jar" and reports the first of them in scan order whose  *)
(* lowercased name contains the slug or its underscore form; for the      *)
(* shader entry it considers every file of installed-shaderpacks and      *)
(* looks for "complementary".                                             *)
C10_Step ==
  pc = "fetch" =>
    LET candidates == {f \in Names(SearchDir(idx)) :
                         /\ NameMatches(f, CheckSlug(idx))
                         /\ (idx # ShaderIdx => endsWith(f, JAR))}
    IN  FirstOf(candidates, existing')

C10_ExistingCheck == [][C10_Step]_vars

C10_Witness ==
  /\ pc = "sleep"
  /\ idx = 4
  /\ existing = Some(F_Sodium_jar)
  /\ F_sodium_zip \in Names(modsDir)

(* C11 as stated: the shader counts as installed exactly when some file   *)
(* of installed-shaderpacks has a name containing the identifier that is  *)
(* sent to the registry, "complementary-reimagined" (or its underscore    *)
(* form).                                                                 *)
C11_OriginalStep ==
  (pc = "fetch" /\ idx = ShaderIdx) =>
    (existing' # None <=>
       \E f \in Names(shadersDir) : NameMatches(f, S_complementary_reimagined))

C11_Original == [][C11_OriginalStep]_vars

(* C11 amended: the shader entry uses two fixed identifiers: it counts as *)
(* installed exactly when some file of installed-shaderpacks has a        *)
(* lowercased name containing "complementary", and when it is fetched the *)
(* registry is asked for the project "complementary-reimagined".          *)
C11_Step ==
  /\ (pc = "fetch" /\ idx = ShaderIdx) =>
       (existing' # None <=>
          \E f \in Names(shadersDir) : NameMatches(f, S_complementary))
  /\ (pc = "query" /\ idx = ShaderIdx /\ faults' = faults) =>
       pending' = FirstFile(registry[S_complementary_reimagined])

C11_ShaderIdentifiers == [][C11_Step]_vars

C11_Witness ==
  /\ pc = "summary"
  /\ idx = ShaderIdx
  /\ run = 2
  /\ existing = Some(F_complementary_zip)
  /\ ~NameMatches(F_complementary_zip, S_complementary_reimagined)

(* C12: modMatchesFilename(filename, slug) is true exactly when the       *)
(* lowercased file name contains, as a contiguous substring, the          *)
(* lowercased slug or the lowercased slug with every hyphen replaced by   *)
(* an underscore; true for ("sodium-fabric-0.5.8.jar", "sodium"), false   *)
(* for ("modmenu-9.0.0.jar", "sodium"), false for a name that separates   *)
(* the words of the slug in any other way.                                *)
C12_ModMatchesFilename ==
  (call.fn = "modMatchesFilename" /\ ret # None) =>
    LET f == call.filename
        slug == call.projectSlug
    IN  /\ ret[1] = NameMatches(f, toLowerCase(slug))
        /\ (f = N_sodium_fabric /\ slug \in {S_sodium, S_Sodium_Upper}) => ret[1]
        /\ (f = N_modmenu /\ slug = S_sodium) => ~ret[1]
        /\ (f \in {N_lamb_dynamic_lights, N_lamb_hyphens}
              /\ slug = S_lambdynamiclights) => ~ret[1]
        /\ (f \in {N_xaeros_mixed, N_xaeros_mixed2, N_xaeros_joined}
              /\ slug \in {S_xaeros_world_map, S_XAEROS_UPPER}) => ~ret[1]
        /\ (f = N_fabric_space /\ slug = S_fabric_api) => ~ret[1]
        /\ (f \in {N_xaeros_underscore, N_xaeros_hyphen, N_Xaeros_Upper}
              /\ slug \in {S_xaeros_world_map, S_XAEROS_UPPER}) => ret[1]

C12_Witness ==
  /\ call.fn = "modMatchesFilename"
  /\ call.filename = N_Xaeros_Upper
  /\ call.projectSlug = S_xaeros_world_map
  /\ ret = Some(TRUE)

(* C13 as stated: a successful fetch of an entry takes the first file of  *)
(* the first release, requests it once and writes exactly one file, under *)
(* the file name the registry supplied, into installed-mods for a         *)
(* manifest entry and into installed-shaderpacks for the shader entry,    *)
(* and adds one to the downloaded counter.                                *)
C13_OriginalStep ==
  (pc = "download" /\ successCount' = successCount + 1) =>
    LET file == FirstFile(registry[FetchSlug(idx)])[1]
        body == Remote(file.url)
    IN  /\ pending = Some(file)
        /\ downloads' = [downloads EXCEPT ![idx] = 1]
        /\ IF idx = ShaderIdx
             THEN /\ shadersDir' = Put(shadersDir, file.filename, body)
                  /\ modsDir' = modsDir
             ELSE /\ modsDir' = Put(modsDir, file.filename, body)
                  /\ shadersDir' = shadersDir

C13_Original == [][C13_OriginalStep]_vars

(* C14 as stated: whatever was typed at the version prompt, the version   *)
(* string given to the loader installer and to the registry queries is    *)
(* non-empty; with any other input the run has ended with status 1 before *)
(* any other stage.                                                       *)
C14_VersionNonEmpty ==
  /\ (installerCalls > 0 \/ \E e \in Entries : queries[e] > 0) =>
       mcVersion # << >>
  /\ (pc \notin {"load", "prompt_version", "exited"}) => mcVersion # << >>

(* C15: the cleanup flag is set exactly by the answer "y" or "Y"; it      *)
(* keeps its value for the rest of the run; and while it is not set no    *)
(* step creates a backup directory, changes a backup folder, or removes a *)
(* file name from installed-mods or installed-shaderpacks.                *)
BackupDirs == {"backup/mods", "backup/shaderpacks"}

C15_Step ==
  /\ pc = "prompt_cleanup" =>
       (shouldCleanup' <=> answer' \in {Some(<<"y">>), Some(<<"Y">>)})
  /\ pc \notin {"prompt_cleanup", "exited"} => shouldCleanup' = shouldCleanup
  /\ (pc # "exited" /\ ~shouldCleanup') =>
       /\ created' \cap BackupDirs = {}
       /\ backupMods' = backupMods
       /\ backupShaders' = backupShaders
       /\ Names(modsDir) \subseteq Names(modsDir')
       /\ Names(shadersDir) \subseteq Names(shadersDir')

C15_CleanupOnlyOnYes == [][C15_Step]_vars

C15_Witness ==
  /\ pc = "ensure_installer"
  /\ answer = Some(<<"y","e","s">>)
  /\ ~shouldCleanup
  /\ Names(modsDir) # {}
  /\ Names(shadersDir) # {}

(* C16: a run has no exit status until it ends; it ends with status 1    *)
(* exactly when a fatal error ended it and with status 0 exactly when it  *)
(* printed the final summary, whichever of the three summaries that was.  *)
C16_ExitStatus ==
  /\ pc # "exited" => exitCode = None
  /\ pc = "exited" =>
       /\ exitCode \in {Some(0), Some(1)}
       /\ exitCode = Some(1) <=> fatalAt # ""
       /\ exitCode = Some(0) <=> summary # "none"
       /\ summary \in {"all_ready", "partial", "total_failure"} => exitCode = Some(0)

C16_Witness ==
  /\ pc = "exited"
  /\ summary = "total_failure"
  /\ exitCode = Some(0)
  /\ failCount = ShaderIdx

(* C17: main() is at one place at a time and the entries are handled one *)
(* after the other in manifest order, the shader entry last: requests are *)
(* sent only for the current entry, a query at "query" and a file request *)
(* at "download"; nothing has been requested for a later entry; at most   *)
(* one response is in hand, and only between the query and the download   *)
(* of the current entry; the next entry begins only from the delay, when  *)
(* the current one has finished; the summary follows the shader entry.    *)
Changed(f, g) == {e \in Entries : f[e] # g[e]}

C17_Step ==
  /\ pc \in FetchPcs =>
       /\ idx \in Entries
       /\ \A e \in Entries : e > idx => queries[e] = 0 /\ downloads[e] = 0
       /\ \A e \in Entries : downloads[e] <= queries[e] /\ queries[e] <= 1
       /\ pending # None => pc = "download"
       /\ idx' \in {idx, idx + 1}
       /\ idx' = idx + 1 => pc = "sleep" /\ pc' = "fetch" /\ pending = None
       /\ pc' = "fetch" => idx' = idx + 1
       /\ pc' = "summary" => idx = ShaderIdx /\ pending' = None
       /\ pc' \in FetchPcs \cup {"summary"}
  /\ Changed(queries, queries') # {} =>
       \/ pc = "exited"
       \/ pc = "query" /\ Changed(queries, queries') = {idx}
  /\ Changed(downloads, downloads') # {} =>
       \/ pc = "exited"
       \/ pc = "download" /\ Changed(downloads, downloads') = {idx}
  /\ pc \notin FetchPcs => pending = None /\ pending' = None

C17_Sequential == [][C17_Step]_vars

C17_Witness ==
  /\ pc = "summary"
  /\ \A e \in Entries : queries[e] = 1 /\ downloads[e] = 1
  /\ successCount = ShaderIdx

(* C18: the game directory is <home>/Library/Application Support/       *)
(* minecraft on "darwin", <APPDATA>/.minecraft on "win32" with APPDATA    *)
(* set, and <home>/.minecraft on every other platform; on "win32" with    *)
(* APPDATA unset or empty the load fails and the process has ended with   *)
(* status 1 before main(): nothing was asked, created, written, run or    *)
(* requested.                                                             *)
ExpectedDir ==
  CASE platform = "darwin" ->
         Path(env.home) \o << <<"L","i","b","r","a","r","y">>, <<"A","p","p","l","i","c","a","t","i","o","n"," ","S","u","p","p","o","r","t">>,
              <<"m","i","n","e","c","r","a","f","t">> >>
    [] platform = "win32" -> Path(env.APPDATA[1]) \o << D_minecraft >>
    [] OTHER -> Path(env.home) \o << D_minecraft >>

NoAppData == platform = "win32" /\ env.APPDATA \in {None, Some(<< >>)}

C18_EnvironmentResolver ==
  /\ pc = "load" => minecraftDir = None
  /\ (pc # "load" /\ ~NoAppData) =>
       /\ minecraftDir = Some(ExpectedDir)
       /\ fatalAt # "config"
  /\ (pc # "load" /\ NoAppData) =>
       /\ minecraftDir = None
       /\ pc = "exited" /\ exitCode = Some(1) /\ fatalAt = "config"
       /\ answer = None /\ mcVersion = << >> /\ ~shouldCleanup
       /\ FileSystem = start
       /\ created = {}
       /\ ~javaOk /\ installerCalls = 0
       /\ queries = NoRequests /\ downloads = NoRequests

C18_Witness ==
  /\ platform = "win32"
  /\ env.APPDATA = Some(<< >>)
  /\ pc = "exited"
  /\ run = 2
  /\ Names(modsDir) # {}

(* C19 as stated: version "1.21.10", empty staging and installed         *)
(* directories, every package but sodium served with one release of one   *)
(* file and sodium with []: the run ends with 5 downloaded, 1 unavailable *)
(* and the partial-success summary.                                       *)
EndToEnd ==
  /\ registry = BySlug(R_sodium)
  /\ staging = EmptyStaging
  /\ start.mods = EmptyDir /\ start.shaders = EmptyDir
  /\ mcVersion = V_1_21_10
  /\ faults = 0
  /\ summary # "none"

C19_Original ==
  EndToEnd => successCount = 5 /\ failCount = 1 /\ summary = "partial"

(* C19 amended: in that scenario the run ends with 6 downloaded (the five *)
(* other manifest packages and the shader pack), 1 unavailable, nothing   *)
(* copied or found installed, the partial-success summary and status 0;   *)
(* installed-mods holds the five files and installed-shaderpacks the      *)
(* shader pack.                                                           *)
C19_EndToEnd ==
  EndToEnd =>
    /\ successCount = 6 /\ failCount = 1
    /\ localCopyCount = 0 /\ skipCount = 0
    /\ summary = "partial"
    /\ exitCode = Some(0)
    /\ Names(modsDir) = {Canonical(e) : e \in (1..Len(MODS)) \ {4}}
    /\ Names(shadersDir) = {Canonical(Len(MODS) + 1)}
    /\ downloads = [e \in Entries |-> IF e = 4 THEN 0 ELSE 1]

C19_Witness ==
  /\ EndToEnd
  /\ pc = "exited"
  /\ run = 1
  /\ successCount = 6

(* C20 as stated: a cleanup that reads the clock in a different second   *)
(* than the previous cleanup takes a backup directory of another name, so *)
(* it starts from empty backup folders and leaves the earlier backup as   *)
(* it was.                                                                *)
C20_OriginalStep ==
  (pc = "cleanup" /\ backupAt # None /\ backupAt' # backupAt) =>
    LET earlier == backupAt[1]
        now == backupAt'[1]
    IN  (earlier.day # now.day \/ earlier.sec # now.sec) =>
          /\ BackupDirName(now) # BackupDirName(earlier)
          /\ backupMods' = EmptyDir
          /\ backupShaders' = EmptyDir

C20_Original == [][C20_OriginalStep]_vars

(* C21: the installer file is downloaded once and reused. The guard     *)
(* sends no request and leaves the file alone when it exists; otherwise   *)
(* it sends exactly one request, and when that succeeds the file exists   *)
(* before the loader installer is invoked. No other stage sends a request *)
(* to the installer URL or removes the file, so a run that starts with    *)
(* the file present sends none.                                           *)
C21_Step ==
  /\ (pc = "ensure_installer" /\ installer) =>
        installerGets' = installerGets /\ installer'
  /\ (pc = "ensure_installer" /\ ~installer) =>
        /\ installerGets' = installerGets + 1
        /\ pc' # "exited" => installer'
        /\ pc' = "exited" => fatalAt' = "installer_download"
  /\ pc \notin {"ensure_installer", "exited"} => installerGets' = installerGets
  /\ installer => installer'
  /\ pc' = "install_fabric" => installer'
  /\ installerCalls' > installerCalls => installer
  /\ start'.installer => installerGets' = 0
  /\ installerGets' <= 1

C21_InstallerOnce == [][C21_Step]_vars

(* a second run has passed the guard with the file left by the first run *)
C21_Witness ==
  /\ run = 2
  /\ start.installer
  /\ pc = "check_java"
  /\ installerGets = 0

(* C22: in a run that reaches the fetch loop exactly one delay follows  *)
(* each of the six manifest entries, however the entry ended (already     *)
(* installed, downloaded, unavailable), and none follows the shader       *)
(* entry; the existence check of entry k+1 begins only when the delay of  *)
(* entry k has completed.                                                 *)
C22_Step ==
  /\ delays' # delays =>
        \/ pc = "exited"
        \/ /\ pc = "sleep" /\ idx <= Len(MODS)
           /\ delays' = [delays EXCEPT ![idx] = 1]
           /\ delays[idx] = 0
           /\ pc' = "fetch" /\ idx' = idx + 1
  /\ pc \in {"fetch", "query", "download"} =>
        /\ pc' \in {"query", "download", "sleep", "summary"}
        /\ pc' = "sleep" => idx <= Len(MODS)
        /\ pc' = "summary" => idx = ShaderIdx
        /\ pc' \in {"sleep", "summary"} =>
              skipCount' + successCount' + failCount'
                = skipCount + successCount + failCount + 1
  /\ pc = "sleep" => pc' = "fetch" /\ delays'[idx] = 1
  /\ (pc' = "fetch" /\ pc # "exited") =>
        \/ pc = "sleep" /\ idx' = idx + 1 /\ delays'[idx] = 1
        \/ pc = "merge_shaders" /\ idx' = 1
  /\ pc' \in FetchPcs \cup {"summary"} =>
        \A e \in Entries : delays'[e] = IF e < idx' THEN 1 ELSE 0
  /\ summary' # "none" =>
        \A e \in Entries : delays'[e] = IF e <= Len(MODS) THEN 1 ELSE 0

C22_DelayPerEntry == [][C22_Step]_vars

(* the loop has ended after entries of all three kinds *)
C22_Witness ==
  /\ pc = "summary"
  /\ skipCount > 0 /\ successCount > 0 /\ failCount > 0
  /\ \A e \in Entries : delays[e] = IF e <= Len(MODS) THEN 1 ELSE 0

(* C23: when every awaited call returns, every run ends, with a fatal   *)
(* abort or after the summary: the control position becomes "exited"     *)
(* and stays there until the script is started again. The fetch stage     *)
(* takes the seven entries in turn, each exactly once: when an entry's    *)
(* existence check begins, the entries before it have been counted once   *)
(* each and nothing has been requested for it, and no step goes back to   *)
(* an earlier entry.                                                      *)
C23_Step ==
  /\ pc = "fetch" =>
        /\ idx \in Entries
        /\ skipCount + successCount + failCount = idx - 1
        /\ queries[idx] = 0 /\ downloads[idx] = 0 /\ delays[idx] = 0
        /\ pc' # "fetch"
  /\ pc \in FetchPcs => idx' >= idx
  /\ pc' = "exited" =>
        \/ fatalAt' # "" /\ exitCode' = Some(1) /\ summary' = "none"
        \/ fatalAt' = "" /\ summary' # "none" /\ idx' = ShaderIdx
              /\ skipCount' + successCount' + failCount' = ShaderIdx

C23_Terminates ==
  /\ []<>(pc = "exited")
  /\ [][C23_Step]_vars

(* a run has ended after going through every stage: cleanup and local   *)
(* merge have moved files, and entries of all three kinds were processed  *)
C23_Witness ==
  /\ pc = "exited"
  /\ summary = "partial"
  /\ shouldCleanup /\ Names(backupMods) # {}
  /\ localCopyCount > 0
  /\ skipCount > 0 /\ successCount > 0 /\ failCount > 0

(* C24: counter conservation. Within a run the downloaded, already-    *)
(* installed and unavailable counters never decrease; a step changes      *)
(* them exactly when it ends the processing of an entry, and then exactly *)
(* one of the three grows, by one; when the summary is printed their sum  *)
(* is 7, the six manifest entries plus the shader entry.                  *)
Processed == successCount + skipCount + failCount

C24_Step ==
  pc # "exited" =>
    /\ successCount' \in {successCount, successCount + 1}
    /\ skipCount' \in {skipCount, skipCount + 1}
    /\ failCount' \in {failCount, failCount + 1}
    /\ Processed' \in {Processed, Processed + 1}
    /\ Processed' = Processed + 1 <=>
          (pc \in {"fetch", "query", "download"} /\ pc' \in {"sleep", "summary"})
    /\ pc \in FetchPcs => Processed = IF pc = "sleep" THEN idx ELSE idx - 1
    /\ summary' # "none" => Processed' = 7 /\ Len(MODS) + 1 = 7

C24_CounterConservation == [][C24_Step]_vars

C24_Witness ==
  /\ summary # "none"
  /\ Processed = 7
  /\ skipCount >= 2 /\ failCount >= 2 /\ successCount >= 2

(* C25 as stated: the total the summary reports as installed (copied    *)
(* from local + downloaded + already installed) counts each installed     *)
(* file at most once: when the summary is printed it does not exceed the  *)
(* number of files in the installed-mods and installed-shaderpacks        *)
(* directories.                                                           *)
totalInstalled == localCopyCount + successCount + skipCount

C25_TotalBounded ==
  summary # "none" =>
    totalInstalled <= Cardinality(Names(modsDir)) + Cardinality(Names(shadersDir))

(* C26: no file a run copies from staging or downloads is deleted by    *)
(* that run. Only the cleanup stage removes a file name from an installed *)
(* directory; only local merge copies from staging and only the fetch     *)
(* stage downloads; cleanup is over before local merge begins, and local  *)
(* merge is over before the first existing-installation check; so from    *)
(* the end of cleanup to the end of the run the installed directories     *)
(* lose no file name.                                                     *)
Lost(dir, dirNext) == Names(dir) \ Names(dirNext)

C26_Step ==
  /\ Lost(modsDir, modsDir') # {} => pc = "clean_mods_rm" /\ ~merged
  /\ Lost(shadersDir, shadersDir') # {} => pc = "clean_shaders_rm" /\ ~merged
  /\ localCopyCount' > localCopyCount =>
        pc \in MergePcs /\ ~merged /\ successCount = 0 /\ queries = NoRequests
  /\ successCount' > successCount => pc = "download" /\ merged
  /\ pc \in MergePcs \cup {"merge_mods_start"} =>
        pc' \in MergePcs \cup {"fetch", "exited"}
  /\ pc \in FetchPcs \cup {"summary"} =>
        /\ merged
        /\ pc' \in FetchPcs \cup {"summary", "exited"}
  /\ (pc' = "fetch" /\ idx' = 1) => pc = "merge_shaders" /\ merged'
  /\ pc \in MergePcs \cup FetchPcs \cup {"merge_mods_start", "summary"} =>
        Lost(modsDir, modsDir') = {} /\ Lost(shadersDir, shadersDir') = {}

C26_NoDeleteAfterCleanup == [][C26_Step]_vars

(* a run has cleaned up, copied from staging and downloaded, and what it *)
(* copied is in place when the summary is due                            *)
C26_Witness ==
  /\ pc = "summary"
  /\ shouldCleanup /\ Names(cleanStart.mods) # {}
  /\ Jars(modsDir) \cap Names(cleanStart.mods) = {}
  /\ localCopyCount > 0 /\ successCount > 0
  /\ StagedMods # {} /\ StagedMods \subseteq Names(modsDir)

(* C27 as stated: re-run convergence. If an earlier run downloaded a    *)
(* package under a registry-supplied name that satisfies the entry's      *)
(* existing-installation check, a run without cleanup on the resulting    *)
(* directories counts the package as already installed and sends no       *)
(* registry request for it; if all seven entries are in that state the    *)
(* run downloads nothing, sends no registry request and leaves the        *)
(* installed directories unchanged.                                       *)
CheckAccepts(e, filename) ==
  IF e = ShaderIdx
    THEN modMatchesFilename(filename, CheckSlug(e))
    ELSE endsWith(filename, JAR) /\ modMatchesFilename(filename, CheckSlug(e))

(* the run began with the file an earlier run downloaded for entry e *)
DownloadedBefore(e) ==
  LET first == FirstFile(registry[FetchSlug(e)])
  IN  /\ first # None
      /\ CheckAccepts(e, first[1].filename)
      /\ \/ \E f \in Names(start.mods) : start.mods[f] = Remote(first[1].url)
         \/ \E f \in Names(start.shaders) : start.shaders[f] = Remote(first[1].url)

C27_OriginalStep ==
  (run >= 2 /\ ~shouldCleanup) =>
    /\ (pc = "fetch" /\ DownloadedBefore(idx)) =>
          /\ existing' # None
          /\ skipCount' = skipCount + 1
          /\ pc' = After(idx)
    /\ \A e \in Entries : DownloadedBefore(e) => queries'[e] = 0 /\ downloads'[e] = 0
    /\ (summary' # "none" /\ \A e \in Entries : DownloadedBefore(e)) =>
          /\ successCount' = 0 /\ skipCount' = ShaderIdx
          /\ queries' = NoRequests /\ downloads' = NoRequests
          /\ modsDir' = start.mods /\ shadersDir' = start.shaders

C27_Original == [][C27_OriginalStep]_vars

(* C28 as stated: the remote fetch stage never overwrites a file that   *)
(* was already in an installed directory: a download writes only under a  *)
(* file name that did not exist in the target directory, so every file    *)
(* that was there (placed by the user, by local merge or by an earlier    *)
(* entry's download) keeps its contents.                                  *)
Kept(dir, dirNext) ==
  \A f \in Names(dir) : f \in Names(dirNext) /\ dirNext[f] = dir[f]

C28_OriginalStep ==
  pc \in FetchPcs =>
    /\ Kept(modsDir, modsDir')
    /\ Kept(shadersDir, shadersDir')

C28_Original == [][C28_OriginalStep]_vars

====
